---- MODULE Spec2Model ----
(***************************************************************************)
(* A model of src/shell.py: the line parser (Shell.parser), the process    *)
(* orchestrator (Shell.run_cmds with redirect / find_executable / execute) *)
(* and the driver loop (Shell.run_shell), together with the part of the    *)
(* operating system they act on: processes, descriptor tables and pipes.   *)
(*                                                                         *)
(* A Python str is modelled as a sequence of one-character strings, so     *)
(* that strip, split and the regular expressions of the parser are         *)
(* computed character by character.                                        *)
(***************************************************************************)
EXTENDS Integers, Sequences, FiniteSets, TLC

(***************************************************************************)
(* Bounds of the model.                                                    *)
(***************************************************************************)
\* longest raw line enumerated by the parser specification
MaxLen == 4
\* number of lines the driver reads before the model stops feeding it
MaxLines == 2
\* capacity of a pipe's kernel buffer, in bytes
PipeCap == 2
\* most bytes a writer program writes to its standard output
MaxBytes == 3

(***************************************************************************)
(* Python str helpers.                                                     *)
(***************************************************************************)
\* None, and every other falsy string value ('' is never produced by \S+)
None == <<>>

IsSpace(c) == c = " "

RECURSIVE lstrip(_)
lstrip(s) == IF s # <<>> /\ IsSpace(Head(s)) THEN lstrip(Tail(s)) ELSE s

RECURSIVE rstrip(_)
rstrip(s) ==
    IF s # <<>> /\ IsSpace(s[Len(s)]) THEN rstrip(SubSeq(s, 1, Len(s) - 1)) ELSE s

\* str.strip()
strip(s) == lstrip(rstrip(s))

\* str.split(d) for a one-character delimiter: one more piece than delimiters
RECURSIVE split_on(_, _)
split_on(s, d) ==
    IF \A i \in 1..Len(s) : s[i] # d
    THEN <<s>>
    ELSE LET k == CHOOSE i \in 1..Len(s) :
                      s[i] = d /\ \A j \in 1..(i - 1) : s[j] # d
         IN  <<SubSeq(s, 1, k - 1)>> \o split_on(SubSeq(s, k + 1, Len(s)), d)

\* str.endswith / str.startswith
endswith(s, c) == s # <<>> /\ s[Len(s)] = c
startswith(s, p) == Len(s) >= Len(p) /\ SubSeq(s, 1, Len(p)) = p

\* index of the first non-space character at or after i (Len(s)+1 if none): \s*
RECURSIVE SkipSpaces(_, _)
SkipSpaces(s, i) ==
    IF i <= Len(s) /\ IsSpace(s[i]) THEN SkipSpaces(s, i + 1) ELSE i

\* index of the last character of the run of non-spaces starting at j: \S+
RECURSIVE RunEnd(_, _)
RunEnd(s, j) ==
    IF j + 1 <= Len(s) /\ ~IsSpace(s[j + 1]) THEN RunEnd(s, j + 1) ELSE j

\* the pattern  [marks]\s*\S+  matches at position i
MatchAt(s, i, marks) ==
    /\ i \in 1..Len(s)
    /\ s[i] \in marks
    /\ SkipSpaces(s, i + 1) <= Len(s)

\* re.search(mark \s*(\S+), s).group(1), or None without a match
re_search(s, mark) ==
    IF \E i \in 1..Len(s) : MatchAt(s, i, {mark})
    THEN LET i == CHOOSE k \in 1..Len(s) :
                      /\ MatchAt(s, k, {mark})
                      /\ \A j \in 1..(k - 1) : ~MatchAt(s, j, {mark})
             j == SkipSpaces(s, i + 1)
         IN  SubSeq(s, j, RunEnd(s, j))
    ELSE None

\* re.sub([<>]\s*\S+, '', s), scanning from position i
RECURSIVE re_sub_from(_, _)
re_sub_from(s, i) ==
    IF i > Len(s) THEN <<>>
    ELSE IF MatchAt(s, i, {"<", ">"})
         THEN re_sub_from(s, RunEnd(s, SkipSpaces(s, i + 1)) + 1)
         ELSE <<s[i]>> \o re_sub_from(s, i + 1)

\* a substitution that drops the markers but leaves the path tokens
RECURSIVE re_sub_markers_only(_)
re_sub_markers_only(s) ==
    IF s = <<>> THEN <<>>
    ELSE IF Head(s) \in {"<", ">"} THEN re_sub_markers_only(Tail(s))
         ELSE <<Head(s)>> \o re_sub_markers_only(Tail(s))

\* line 59: re.sub(r'[<>]\s*\S+', '', cmd)
re_sub(s) == re_sub_from(s, 1)

\* str.split(): the whitespace-delimited tokens
RECURSIVE split_ws(_)
split_ws(s) ==
    LET t == lstrip(s)
    IN  IF t = <<>> THEN <<>>
        ELSE LET e == RunEnd(t, 1)
             IN  <<SubSeq(t, 1, e)>> \o split_ws(SubSeq(t, e + 1, Len(t)))

(***************************************************************************)
(* Shell.parser.  The result is a record: failed is the `return False` of  *)
(* line 46 (with the syntax diagnostic written to descriptor 2), commands  *)
(* is the returned list.                                                   *)
(***************************************************************************)
\* the check of line 44 with the bound off by one
MarkerMisplaced_OffByOne(cmd, i, n_cmds) == endswith(cmd, "&") /\ i < n_cmds - 1

\* line 43-44: the background marker on a segment that is not the last one
MarkerMisplaced(cmd, i, n_cmds) == endswith(cmd, "&") /\ i < n_cmds

\* a parser that keeps a stage for a segment without tokens
parse_segment_keeps_empty(cmd0) ==
    << [cmd |-> None, args |-> <<>>, input |-> None, output |-> None,
        background |-> endswith(cmd0, "&")] >>

\* lines 42-70 for one trimmed segment whose marker (if any) is legal
parse_segment(cmd0) ==
    LET background == endswith(cmd0, "&")
        cmd  == IF background THEN strip(SubSeq(cmd0, 1, Len(cmd0) - 1)) ELSE cmd0
        inp  == re_search(cmd, "<")
        out  == re_search(cmd, ">")
        parts == split_ws(strip(re_sub(cmd)))
    IN  IF parts # <<>>
        THEN << [cmd |-> parts[1], args |-> parts, input |-> inp,
                 output |-> out, background |-> background] >>
        ELSE <<>>

\* the while loop of lines 37-71, from segment i with `commands` built so far
RECURSIVE parse_from(_, _, _)
parse_from(pipe_commands, i, commands) ==
    IF i > Len(pipe_commands)
    THEN [failed |-> FALSE, commands |-> commands]
    ELSE LET cmd == strip(pipe_commands[i])
         IN  IF MarkerMisplaced(cmd, i, Len(pipe_commands))
             THEN [failed |-> TRUE, commands |-> <<>>]
             ELSE parse_from(pipe_commands, i + 1, commands \o parse_segment(cmd))

parser(cmds) == parse_from(split_on(cmds, "|"), 1, <<>>)

(***************************************************************************)
(* The operating system: descriptor tables, pipes, processes.              *)
(*                                                                         *)
(* A descriptor table maps descriptor numbers to open file descriptions.   *)
(* The shell is process 0; children get the pids 1, 2, ... in order of     *)
(* creation and a pid is never reused.                                     *)
(***************************************************************************)
VARIABLES
    caller,    \* what called run_cmds: "run_shell" (line 268, inside the try of
               \* lines 251-276) or "direct" (a program that calls
               \* Shell().run_cmds(cmds) itself, with no handler around it)
    pc,        \* where the shell process is: "prompt" (between two run_cmds
               \* calls: line 252 in run_shell), "wait1" (line 200), "wait2"
               \* (line 229), "wait_single" (line 241), "exited"
    tty,       \* the lines the user may type at the prompt
    left,      \* how many lines the user still types (how many calls a direct
               \* caller still makes)
    user_in,   \* run_shell's local: the stripped line read last
    parsed_cmds, \* run_shell's local: what the parser returned last
    shfds,     \* descriptor table of the shell process
    shstatus,  \* exit status of the shell process, -1 while it runs
    cur,       \* locals of the run_cmds call in progress
    procs,     \* the children ever created, by pid
    pipes,     \* the pipes ever created: their buffered bytes, by pipe id
    err,       \* what was written to the terminal through descriptor 2
    out,       \* what was written to the terminal through descriptor 1
    calls      \* history: one record per run_cmds call

vars == <<caller, pc, tty, left, user_in, parsed_cmds, shfds, shstatus, cur, procs, pipes,
          err, out, calls>>

Tty == [kind |-> "tty", id |-> 0, path |-> None]
FileR(path) == [kind |-> "rdonly", id |-> 0, path |-> path]
FileW(path) == [kind |-> "creat_wronly", id |-> 0, path |-> path]
PipeR(id) == [kind |-> "pr", id |-> id, path |-> None]
PipeW(id) == [kind |-> "pw", id |-> id, path |-> None]

NoFds == [k \in {} |-> Tty]

\* the kernel hands out the lowest descriptor number that is not open
LowestFree(fds) ==
    CHOOSE n \in 0..Cardinality(DOMAIN fds) :
        n \notin DOMAIN fds /\ \A m \in 0..(n - 1) : m \in DOMAIN fds

\* os.close
Close(fds, fd) == [k \in (DOMAIN fds) \ {fd} |-> fds[k]]

\* os.open / one end of os.pipe: the description lands on the lowest free number
Open(fds, desc) == (LowestFree(fds) :> desc) @@ fds

\* os.dup2(old, new)
Dup2(fds, old, new) == (new :> fds[old]) @@ fds

Pids == 1..Len(procs)
Alive(p) == procs[p].st \in {"forked", "running"}
Holds(fds, desc) == \E fd \in DOMAIN fds : fds[fd] = desc

\* some live process still holds the given end of a pipe
HasHolder(desc) ==
    \/ pc # "exited" /\ Holds(shfds, desc)
    \/ \E p \in Pids : Alive(p) /\ Holds(procs[p].fds, desc)

\* a terminal message; pid and status are the numbers the message names
Msg(by, text, pid, status) ==
    [by |-> by, msg |-> text, pid |-> pid, status |-> status]

\* the status word os.wait / os.waitpid return for a child's exit code
WaitStatus(code) == code * 256

(***************************************************************************)
(* The environment the shell runs in.                                      *)
(***************************************************************************)
\* The files on PATH that pass os.access(exe, os.X_OK), by command name, and
\* what os.execve does with them: a writer writes bytes to descriptor 1 and
\* exits 0, a reader reads descriptor 0 to end-of-file and exits 0, exit1
\* exits with code 1; "enoent" is a script whose interpreter is missing
\* (execve raises FileNotFoundError), "enoexec" a file that is no loadable
\* program (execve raises another OSError).  Every other name is not found.
Program(cmd) ==
    CASE cmd = <<"w">> -> "writer"
      [] cmd = <<"p", "w", "d">> -> "writer"
      [] cmd = <<"r">> -> "reader"
      [] cmd = <<"f">> -> "exit1"
      [] cmd = <<"g">> -> "enoent"
      [] cmd = <<"h">> -> "enoexec"
      [] OTHER -> "none"

\* os.open(path, O_RDONLY) succeeds: every path but "n" names a readable file
OpensForReading(path) == path # <<"n">>

\* os.open(path, O_CREAT | O_WRONLY) succeeds: "d" is a directory
OpensForWriting(path) == path # <<"d">>

\* Shell.find_executable: TRUE when a path is returned, FALSE for None
find_executable(cmd) == Program(cmd.cmd) # "none"

\* the lines the user may type
Lines ==
    { <<"w">>, <<"w", "&">>, <<"f">>, <<"f", "&">>, <<"x">>,
      <<"r", "<", "i", ">", "o">>,
      <<"w", "|", "r">>, <<"w", "|", "r", "&">>, <<"f", "|", "r">>,
      <<"x", "|", "r">>, <<"w", ">", "o", "|", "r", "<", "i">>,
      <<"w", "&", "|", "r">>, <<"w", "|", "r", "|", "r">>,
      <<"c", "d">>, <<"p", "w", "d">>, <<"e", "x", "i", "t">>,
      <<"g">>, <<"h">>, <<"r", "<", "n">>, <<"w", ">", "d", "|", "r">>,
      <<"w", "|", "r", "<", "n">>,
      <<" ">>, <<"|">> }

(***************************************************************************)
(* State after construction: the shell at its first prompt, descriptors    *)
(* 0, 1 and 2 on the terminal, no child, no pipe.                          *)
(***************************************************************************)
\* run_cmds locals while no call is in progress (pr, pw = None is -1)
NoCall == [cmds |-> <<>>, rc |-> 0, rc2 |-> 0, pr |-> -1, pw |-> -1, pipe |-> 0]

\* the state of the shell process and of the system before the first prompt
Fresh ==
    /\ pc = "prompt"
    /\ user_in = <<>>
    /\ parsed_cmds = [failed |-> FALSE, commands |-> <<>>]
    /\ shfds = [fd \in 0..2 |-> Tty]
    /\ shstatus = -1
    /\ cur = NoCall
    /\ procs = <<>>
    /\ pipes = <<>>
    /\ err = <<>>
    /\ out = <<>>
    /\ calls = <<>>

Init ==
    /\ caller = "run_shell"
    /\ tty = Lines
    /\ left = MaxLines
    /\ Fresh

(***************************************************************************)
(* Exceptions.  Everything run_cmds does runs inside the try of run_shell  *)
(* (lines 251-276), in the shell and in a forked child alike: a child is a *)
(* copy of the shell, still inside the loop, until os.execve succeeds.     *)
(***************************************************************************)
\* a handler that catches every exception
run_shell_catches_all(exc) == TRUE

\* lines 270 and 274: the exceptions run_shell catches
run_shell_catches(exc) == exc \in {"EOFError", "SystemExit"}

\* a handler that goes on with the next iteration of the loop
handler_continues(exc) == FALSE

\* lines 272 and 276: each handler of run_shell ends with break
handler_breaks(exc) == exc \in {"EOFError", "SystemExit"}

\* What a process does when exc leaves run_cmds, sys.exit(requested) being
\* what raised a SystemExit.  An exception run_shell catches prints "Exiting
\* shell." on descriptor 1 and breaks out of the loop (lines 271-276), and the
\* interpreter then ends with status 0 (ends is FALSE for a handler that stays
\* in the loop).  A SystemExit nobody catches ends the interpreter with the
\* requested status; any other exception that is not caught makes it print a
\* traceback on descriptor 2 and end with status 1.
ProcessEnd(exc, requested) ==
    IF caller = "run_shell" /\ run_shell_catches(exc)
    THEN [status |-> 0, stream |-> 1, text |-> "Exiting shell.",
          ends |-> handler_breaks(exc)]
    ELSE IF exc = "SystemExit"
         THEN [status |-> requested, stream |-> 0, text |-> "", ends |-> TRUE]
         ELSE [status |-> 1, stream |-> 2, text |-> "Traceback", ends |-> TRUE]

(***************************************************************************)
(* The child between fork and image replacement (lines 186-195, 214-220).  *)
(***************************************************************************)
\* a new child: a copy of the shell's descriptor table and of its locals
NewProc(stage, idx, callno) ==
    [st |-> "forked", status |-> -1, call |-> callno, idx |-> idx, stage |-> stage,
     pr |-> cur.pr, pw |-> cur.pw, pipe |-> cur.pipe, fds |-> shfds,
     prog |-> "shell", left |-> 0, sent |-> <<>>, got |-> <<>>,
     execfds |-> NoFds]

\* a redirection that skips a path that does not open, and goes on
redirect_skips_failure(fds, cmd) ==
    LET a == IF cmd.input # None /\ OpensForReading(cmd.input)
             THEN Open(Close(fds, 0), FileR(cmd.input)) ELSE fds
    IN  [fds |-> IF cmd.output # None /\ OpensForWriting(cmd.output)
                 THEN Open(Close(a, 1), FileW(cmd.output)) ELSE a,
         raised |-> FALSE]

\* a redirection that opens the files without closing descriptors 0 and 1
redirect_without_close(fds, cmd) ==
    LET a == IF cmd.input # None THEN Open(fds, FileR(cmd.input)) ELSE fds
    IN  [fds |-> IF cmd.output # None THEN Open(a, FileW(cmd.output)) ELSE a,
         raised |-> FALSE]

\* Shell.redirect: raised when an os.open fails
redirect(fds, cmd) ==
    LET a == IF cmd.input # None
             THEN IF OpensForReading(cmd.input) THEN [fds |-> Open(Close(fds, 0), FileR(cmd.input)),
                                  raised |-> FALSE]
                  ELSE [fds |-> Close(fds, 0), raised |-> TRUE]
             ELSE [fds |-> fds, raised |-> FALSE]
    IN  IF a.raised \/ cmd.output = None THEN a
        ELSE IF OpensForWriting(cmd.output)
             THEN [fds |-> Open(Close(a.fds, 1), FileW(cmd.output)), raised |-> FALSE]
             ELSE [fds |-> Close(a.fds, 1), raised |-> TRUE]

\* a child that duplicates its pipe end and closes nothing
WirePipeClosesNothing(fds, me) ==
    IF me.pipe = 0 THEN fds
    ELSE IF me.idx = 1 THEN Dup2(fds, me.pw, 1) ELSE Dup2(fds, me.pr, 0)

\* lines 190-193 (child 1, when cmd_1 is set) and 217-218 (child 2)
WirePipe(fds, me) ==
    IF me.pipe = 0 THEN fds
    ELSE IF me.idx = 1
         THEN Close(Dup2(Close(fds, me.pr), me.pw, 1), me.pw)
         ELSE Close(Dup2(fds, me.pr, 0), me.pr)

\* the process exits with an exit code: a zombie until its parent collects it
Ended(me, code) ==
    [me EXCEPT !.st = "zombie", !.status = WaitStatus(code), !.fds = NoFds]

\* the process is killed by a signal: the status word is the signal number
Killed(me, sig) == [me EXCEPT !.st = "zombie", !.status = sig, !.fds = NoFds]

\* exc reaches run_shell in child p, whose descriptor table is fds and which
\* has written the messages of e to descriptor 2 so far; what the child
\* prints on descriptor 1 goes to the terminal, a file or the pipe.  The child
\* ends, or is at the prompt of line 252 if the handler stays in the loop.
ChildRaises(p, fds, exc, requested, e) ==
    LET end == ProcessEnd(exc, requested)
        to == IF end.stream = 1 /\ 1 \in DOMAIN fds THEN fds[1].kind ELSE "none"
    IN  /\ procs' = [procs EXCEPT ![p] = IF end.ends THEN Ended(@, end.status)
                                         ELSE [@ EXCEPT !.st = "prompt"]]
        /\ err' = IF end.stream = 2 THEN Append(e, Msg(p, end.text, 0, 0)) ELSE e
        /\ out' = IF to = "tty" THEN Append(out, Msg(p, end.text, 0, 0)) ELSE out
        /\ pipes' = IF to = "pw" THEN [pipes EXCEPT ![fds[1].id] = Append(@, 0)]
                    ELSE pipes

\* Shell.execute, after find_executable, redirect and the pipe wiring
ChildExec(p) ==
    /\ p \in Pids
    /\ procs[p].st = "forked"
    /\ LET me == procs[p]
           exe == find_executable(me.stage)
           r == redirect(me.fds, me.stage)
           fds == WirePipe(r.fds, me)
           prog == Program(me.stage.cmd)
       IN  IF r.raised THEN ChildRaises(p, r.fds, "OSError", 0, err)
           ELSE IF ~exe
           THEN ChildRaises(p, fds, "SystemExit", 1,
                            Append(err, Msg(p, "command not found", 0, 0)))
           ELSE IF prog = "enoent"
           THEN ChildRaises(p, fds, "SystemExit", 1,
                            Append(err, Msg(p, "Failed to execute", 0, 0)))
           ELSE IF prog = "enoexec" THEN ChildRaises(p, fds, "OSError", 0, err)
           ELSE /\ \E n \in (IF prog = "writer" THEN 0..MaxBytes ELSE {0}) :
                     procs' = [procs EXCEPT ![p] =
                        [@ EXCEPT !.st = "running", !.fds = fds, !.execfds = fds,
                                  !.prog = prog, !.left = n]]
                /\ UNCHANGED <<err, out, pipes>>
    /\ UNCHANGED <<caller, pc, tty, left, user_in, parsed_cmds, shfds, shstatus, cur, calls>>

(***************************************************************************)
(* The programs, once running.                                             *)
(***************************************************************************)
\* the bytes b, b+1, ..., b+k-1
RECURSIVE Bytes(_, _)
Bytes(b, k) == IF k = 0 THEN <<>> ELSE <<b>> \o Bytes(b + 1, k - 1)

\* a writer writes to descriptor 1; the i-th byte written is i.  Into a pipe
\* it writes one byte at a time: a full pipe blocks it, a pipe nobody can read
\* kills it (SIGPIPE).  The terminal or a file takes all it has at once.
ProgWrite(p) ==
    /\ p \in Pids
    /\ procs[p].st = "running" /\ procs[p].prog = "writer" /\ procs[p].left > 0
    /\ LET me == procs[p]
           d == me.fds[1]
           b == Len(me.sent) + 1
       IN  IF d.kind # "pw"
           THEN /\ procs' = [procs EXCEPT ![p].left = 0,
                                           ![p].sent = @ \o Bytes(b, me.left)]
                /\ UNCHANGED pipes
           ELSE IF ~HasHolder(PipeR(d.id))
           THEN /\ procs' = [procs EXCEPT ![p] = Killed(@, 13)]
                /\ UNCHANGED pipes
           ELSE /\ Len(pipes[d.id]) < PipeCap
                /\ procs' = [procs EXCEPT ![p].left = @ - 1, ![p].sent = Append(@, b)]
                /\ pipes' = [pipes EXCEPT ![d.id] = Append(@, b)]
    /\ UNCHANGED <<caller, pc, tty, left, user_in, parsed_cmds, shfds, shstatus, cur, err, out,
                   calls>>

\* a reader takes the next byte from descriptor 0; on an empty pipe it blocks
\* while some process holds the write end, and sees end-of-file (and exits 0)
\* once none does; a descriptor 0 that is no pipe is at end-of-file at once
ProgRead(p) ==
    /\ p \in Pids
    /\ procs[p].st = "running" /\ procs[p].prog = "reader"
    /\ LET me == procs[p]
           d == me.fds[0]
       IN  IF d.kind # "pr"
           THEN /\ procs' = [procs EXCEPT ![p] = Ended(@, 0)]
                /\ UNCHANGED pipes
           ELSE IF pipes[d.id] # <<>>
           THEN /\ procs' = [procs EXCEPT ![p].got = Append(@, Head(pipes[d.id]))]
                /\ pipes' = [pipes EXCEPT ![d.id] = Tail(@)]
           ELSE /\ ~HasHolder(PipeW(d.id))
                /\ procs' = [procs EXCEPT ![p] = Ended(@, 0)]
                /\ UNCHANGED pipes
    /\ UNCHANGED <<caller, pc, tty, left, user_in, parsed_cmds, shfds, shstatus, cur, err, out,
                   calls>>

\* a writer that has written everything exits 0; exit1 exits 1
ProgExit(p) ==
    /\ p \in Pids
    /\ procs[p].st = "running"
    /\ \/ procs[p].prog = "writer" /\ procs[p].left = 0
       \/ procs[p].prog = "exit1"
    /\ procs' = [procs EXCEPT ![p] = Ended(@, IF @.prog = "exit1" THEN 1 ELSE 0)]
    /\ UNCHANGED <<caller, pc, tty, left, user_in, parsed_cmds, shfds, shstatus, cur, pipes, err,
                   out, calls>>

(***************************************************************************)
(* Shell.run_shell and Shell.run_cmds in the shell process.  An action     *)
(* runs the shell from one point where it can block (the read of a line,   *)
(* a wait) to the next.                                                    *)
(***************************************************************************)
Exit == <<"e", "x", "i", "t">>

\* lines 255-266: what run_shell does with the stripped line
IsExit(u) == startswith(u, Exit)
IsEmpty(u) == ~IsExit(u) /\ Len(u) = 0
IsParsed(u) == ~IsExit(u) /\ Len(u) # 0
NoCommands(u) ==
    IsParsed(u) /\ (parser(u).failed \/ parser(u).commands = <<>>)
Runs(u) == IsParsed(u) /\ ~NoCommands(u)

AtPrompt == caller = "run_shell" /\ pc = "prompt" /\ left > 0

\* lines 252-253: the prompt, and the line read and stripped
Read(line) ==
    /\ left' = left - 1
    /\ user_in' = strip(line)
    /\ UNCHANGED <<caller, tty>>

\* line 263: the parser runs on the stripped line
Parse(line) ==
    /\ Read(line)
    /\ parsed_cmds' = parser(strip(line))

\* exc reaches run_shell in the shell process, which has written the
\* messages of e to descriptor 2 so far: the shell process ends (or is back
\* at the prompt if the handler stays in the loop)
ShellRaises(exc, requested, e) ==
    LET end == ProcessEnd(exc, requested)
    IN  /\ pc' = IF end.ends THEN "exited" ELSE "prompt"
        /\ shstatus' = IF end.ends THEN end.status ELSE shstatus
        /\ shfds' = IF end.ends THEN NoFds ELSE shfds
        /\ err' = IF end.stream = 2 THEN Append(e, Msg(0, end.text, 0, 0)) ELSE e
        /\ out' = IF end.stream = 1 THEN Append(out, Msg(0, end.text, 0, 0)) ELSE out

\* lines 255-256: the line starts with "exit"
ReadExit ==
    /\ AtPrompt
    /\ \E line \in tty : IsExit(strip(line)) /\ Read(line)
    /\ ShellRaises("SystemExit", 0, err)
    /\ UNCHANGED <<parsed_cmds, cur, procs, pipes, calls>>

\* lines 258-260: an empty line
ReadEmpty ==
    /\ AtPrompt
    /\ \E line \in tty : IsEmpty(strip(line)) /\ Read(line)
    /\ out' = Append(out, Msg(0, "", 0, 0))
    /\ UNCHANGED <<pc, parsed_cmds, shfds, shstatus, cur, procs, pipes, err, calls>>

\* lines 263-266: the parser returned False or an empty list
ReadNoCommands ==
    /\ AtPrompt
    /\ \E line \in tty :
         /\ NoCommands(strip(line))
         /\ Parse(line)
         /\ err' = IF parser(strip(line)).failed
                   THEN Append(err, Msg(0, "syntax error", 0, 0)) ELSE err
    /\ out' = Append(out, Msg(0, "no commands", 0, 0))
    /\ UNCHANGED <<pc, shfds, shstatus, cur, procs, pipes, calls>>

\* the history record of a run_cmds call that starts now
NewCall(cmds) ==
    [cmds |-> cmds, fds0 |-> DOMAIN shfds, pids |-> <<>>, pipe |-> 0,
     waited |-> <<>>, ret |-> "active"]

\* lines 172-176: the descriptor table after os.pipe(), when cmd_1 is set
AfterPipe(cmds) ==
    IF Len(cmds) = 2
    THEN Open(Open(shfds, PipeR(Len(pipes) + 1)), PipeW(Len(pipes) + 1))
    ELSE shfds

\* pr, pw as os.pipe() returns them (None is -1), and the pipe's identity
PipeFds(cmds) ==
    IF Len(cmds) = 2
    THEN [pr |-> LowestFree(shfds),
          pw |-> LowestFree(Open(shfds, PipeR(Len(pipes) + 1))),
          pipe |-> Len(pipes) + 1]
    ELSE [pr |-> -1, pw |-> -1, pipe |-> 0]

\* line 168: the unpacking into cmd_0, cmd_1 raises ValueError for a list
\* that has no stage, or three or more
run_cmds_unpack_fails(cmds) ==
    /\ Len(cmds) \notin {1, 2}
    /\ calls' = Append(calls, [NewCall(cmds) EXCEPT !.ret = "unpack_failed"])
    /\ ShellRaises("ValueError", 0, err)
    /\ UNCHANGED <<cur, procs, pipes>>

\* lines 168-179 and 235-238: one stage, the fork succeeds; a background
\* stage returns at once, a foreground one goes on to os.wait()
run_cmds_single(cmds) ==
    LET rc == Len(procs) + 1
        bg == cmds[Len(cmds)].background
    IN  /\ Len(cmds) = 1
        /\ procs' = Append(procs, NewProc(cmds[1], 1, Len(calls) + 1))
        /\ calls' = Append(calls,
               [NewCall(cmds) EXCEPT !.pids = <<rc>>,
                                     !.ret = IF bg THEN "returned" ELSE "active"])
        /\ IF bg
           THEN /\ err' = Append(err, Msg(0, "Background process (single)", 0, 0))
                /\ pc' = "prompt"
                /\ cur' = NoCall
           ELSE /\ err' = err
                /\ pc' = "wait_single"
                /\ cur' = [NoCall EXCEPT !.cmds = cmds, !.rc = rc]
        /\ UNCHANGED <<shfds, shstatus, pipes, out>>

\* lines 168-179 and 198-200: two stages; the pipe, the first fork, the
\* parent closes the write end and blocks in waitpid(rc)
run_cmds_pipe(cmds) ==
    LET rc == Len(procs) + 1
        pf == PipeFds(cmds)
    IN  /\ Len(cmds) = 2
        /\ pipes' = Append(pipes, <<>>)
        /\ procs' = Append(procs,
               [NewProc(cmds[1], 1, Len(calls) + 1) EXCEPT
                   !.pr = pf.pr, !.pw = pf.pw, !.pipe = pf.pipe,
                   !.fds = AfterPipe(cmds)])
        /\ shfds' = Close(AfterPipe(cmds), pf.pw)
        /\ calls' = Append(calls,
               [NewCall(cmds) EXCEPT !.pids = <<rc>>, !.pipe = pf.pipe])
        /\ cur' = [cmds |-> cmds, rc |-> rc, rc2 |-> 0,
                   pr |-> pf.pr, pw |-> pf.pw, pipe |-> pf.pipe]
        /\ pc' = "wait1"
        /\ UNCHANGED <<shstatus, err, out>>

\* lines 168-179: the pipe if there are two stages, then os.fork() fails.
\* os.fork reports a failure by raising OSError and never returns a negative
\* number, so that the branch of lines 181-183 is never taken.
run_cmds_fork_fails(cmds) ==
    /\ Len(cmds) \in {1, 2}
    /\ pipes' = IF Len(cmds) = 2 THEN Append(pipes, <<>>) ELSE pipes
    /\ calls' = Append(calls,
           [NewCall(cmds) EXCEPT !.ret = "fork_failed",
                                 !.pipe = PipeFds(cmds).pipe])
    /\ ShellRaises("OSError", 0, err)
    /\ UNCHANGED <<cur, procs>>

\* line 268: run_shell calls run_cmds on what the parser returned for the line
CallFromLine(line) ==
    /\ AtPrompt
    /\ Runs(strip(line))
    /\ Parse(line)

RunUnpackFails ==
    \E line \in tty :
        CallFromLine(line) /\ run_cmds_unpack_fails(parser(strip(line)).commands)

ForkSingle ==
    \E line \in tty :
        CallFromLine(line) /\ run_cmds_single(parser(strip(line)).commands)

ForkPipe ==
    \E line \in tty :
        CallFromLine(line) /\ run_cmds_pipe(parser(strip(line)).commands)

Fork1Fails ==
    \E line \in tty :
        CallFromLine(line) /\ run_cmds_fork_fails(parser(strip(line)).commands)

\* a parent that keeps the read end open
ParentKeepsReadEnd(fds, pr) == fds

\* line 222: the parent closes the read end after the second fork
ParentClosesReadEnd(fds, pr) == Close(fds, pr)

\* os.waitpid / os.wait returned child q to the call in progress
Collected(q) == [procs EXCEPT ![q].st = "reaped"]
Waited(q) == [calls EXCEPT ![Len(calls)].waited = Append(@, q)]

\* a parent that reports nothing about child 1
Child1DiagSilent(q) == err

\* lines 202-205: the diagnostic for child 1, on descriptor 2
Child1Diag(q) ==
    IF procs[q].status # 0
    THEN Append(err, Msg(0, "Parent: Child 1 terminated", q, procs[q].status))
    ELSE err

\* lines 230-233 and 242-244: the diagnostic for the last child, on descriptor 1
LastChildDiag(q, text) ==
    IF procs[q].status # 0
    THEN Append(out, Msg(0, text, q, procs[q].status))
    ELSE out

\* the children os.wait() of line 241 can return: any child that has ended
\* and has not been collected yet
WaitAnyCandidates == {q \in Pids : procs[q].st = "zombie"}

\* lines 200-226: waitpid(rc) returns, the second fork succeeds, the parent
\* closes the read end; a background pipeline returns, a foreground one goes
\* on to waitpid(rc2)
Wait1Fork2 ==
    /\ pc = "wait1"
    /\ procs[cur.rc].st = "zombie"
    /\ LET rc2 == Len(procs) + 1
           bg == cur.cmds[Len(cur.cmds)].background
       IN  /\ procs' = Append(Collected(cur.rc),
                              NewProc(cur.cmds[2], 2, Len(calls)))
           /\ shfds' = ParentClosesReadEnd(shfds, cur.pr)
           /\ calls' = [Waited(cur.rc) EXCEPT
                           ![Len(calls)].pids = Append(@, rc2),
                           ![Len(calls)].ret = IF bg THEN "returned" ELSE "active"]
           /\ IF bg
              THEN /\ err' = Append(Child1Diag(cur.rc),
                                    Msg(0, "Background process (pipe)", 0, 0))
                   /\ pc' = "prompt"
                   /\ cur' = NoCall
              ELSE /\ err' = Child1Diag(cur.rc)
                   /\ pc' = "wait2"
                   /\ cur' = [cur EXCEPT !.rc2 = rc2]
    /\ UNCHANGED <<caller, tty, left, user_in, parsed_cmds, shstatus, pipes, out>>

\* lines 200-208: waitpid(rc) returns, then os.fork() raises OSError (the
\* branch of lines 210-212 is never taken)
Fork2Fails ==
    /\ pc = "wait1"
    /\ procs[cur.rc].st = "zombie"
    /\ procs' = Collected(cur.rc)
    /\ calls' = [Waited(cur.rc) EXCEPT ![Len(calls)].ret = "fork_failed"]
    /\ ShellRaises("OSError", 0, Child1Diag(cur.rc))
    /\ UNCHANGED <<caller, tty, left, user_in, parsed_cmds, cur, pipes>>

\* lines 229-233: waitpid(rc2) returns and run_cmds returns
Wait2 ==
    /\ pc = "wait2"
    /\ procs[cur.rc2].st = "zombie"
    /\ procs' = Collected(cur.rc2)
    /\ calls' = [Waited(cur.rc2) EXCEPT ![Len(calls)].ret = "returned"]
    /\ out' = LastChildDiag(cur.rc2, "Parent: Child 2 terminated")
    /\ pc' = "prompt"
    /\ cur' = NoCall
    /\ UNCHANGED <<caller, tty, left, user_in, parsed_cmds, shfds, shstatus, pipes, err>>

\* lines 241-244: os.wait() returns some ended child and run_cmds returns
WaitSingle ==
    /\ pc = "wait_single"
    /\ \E q \in WaitAnyCandidates :
         /\ procs' = Collected(q)
         /\ calls' = [Waited(q) EXCEPT ![Len(calls)].ret = "returned"]
         /\ out' = LastChildDiag(q, "Parent: Child terminated")
    /\ pc' = "prompt"
    /\ cur' = NoCall
    /\ UNCHANGED <<caller, tty, left, user_in, parsed_cmds, shfds, shstatus, pipes, err>>

(***************************************************************************)
(* The specification.                                                      *)
(***************************************************************************)
\* some child takes a step
StepChildExec == \E p \in Pids : ChildExec(p)
StepProgWrite == \E p \in Pids : ProgWrite(p)
StepProgRead == \E p \in Pids : ProgRead(p)
StepProgExit == \E p \in Pids : ProgExit(p)

Next ==
    \/ ReadExit
    \/ ReadEmpty
    \/ ReadNoCommands
    \/ RunUnpackFails
    \/ ForkSingle
    \/ ForkPipe
    \/ Fork1Fails
    \/ Wait1Fork2
    \/ Fork2Fails
    \/ Wait2
    \/ WaitSingle
    \/ StepChildExec
    \/ StepProgWrite
    \/ StepProgRead
    \/ StepProgExit

Spec == Init /\ [][Next]_vars

(***************************************************************************)
(* The driver on one line.  The line is any string of at most MaxLen       *)
(* characters of Alphabet, one of Lines, or a segment built from plain     *)
(* tokens and one input and one output redirection clause.                 *)
(***************************************************************************)
Alphabet == {"w", " ", "|", "&", "<", ">"}

AllStrings(n) == UNION {[1..k -> Alphabet] : k \in 0..n}

\* most plain tokens in a built segment
MaxToks == 2

Tokens == {<<"w">>, <<"-", "l">>}
InPaths == {<<"i">>}
OutPaths == {<<"o">>, <<"i", "2">>}

\* the orders of k plain tokens (T), one input clause (I), one output clause (O)
Arrangements(k) ==
    {a \in [1..(k + 2) -> {"T", "I", "O"}] :
        /\ Cardinality({j \in 1..(k + 2) : a[j] = "I"}) = 1
        /\ Cardinality({j \in 1..(k + 2) : a[j] = "O"}) = 1}

\* the text of the arrangement from item j on, t being the next token to use
RECURSIVE Render(_, _, _, _, _, _, _)
Render(a, j, toks, t, c, gap, sep) ==
    IF j > Len(a) THEN <<>>
    ELSE LET item == CASE a[j] = "T" -> toks[t]
                       [] a[j] = "I" -> <<"<">> \o gap \o c.inp
                       [] a[j] = "O" -> <<">">> \o gap \o c.outp
             rest == Render(a, j + 1, toks, IF a[j] = "T" THEN t + 1 ELSE t,
                            c, gap, sep)
         IN  IF j = Len(a) THEN item ELSE item \o sep \o rest

\* the built segments, each with the stage the redirection rules give it
RedirCases ==
    UNION { UNION { { [line |-> Render(a, 1, toks, 1, [inp |-> i, outp |-> o],
                                       gap, sep),
                       toks |-> toks, inp |-> i, outp |-> o] :
                      a \in Arrangements(k), toks \in [1..k -> Tokens],
                      gap \in {<<>>, <<" ">>}, sep \in {<<" ">>, <<" ", " ">>} } :
                    k \in 1..MaxToks } :
            i \in InPaths, o \in OutPaths }

\* a line that starts with "exit" and has the background marker misplaced
ExitLines == {<<"e", "x", "i", "t", " ", "&", "|", "w">>}

ParseLines ==
    AllStrings(MaxLen) \cup Lines \cup ExitLines \cup {c.line : c \in RedirCases}

ParseInit ==
    /\ caller = "run_shell"
    /\ tty \in {{l} : l \in ParseLines}
    /\ left = 1
    /\ Fresh

ParseSpec == ParseInit /\ [][Next]_vars

\* every process that can take a step eventually takes one: the kernel
\* schedules every runnable process
FairSpec == Spec /\ WF_vars(Next)

(***************************************************************************)
(* run_cmds called by a program of its own instead of run_shell: the       *)
(* program makes MaxLines calls Shell().run_cmds(cmds), one after the      *)
(* other, on the lists the parser returns for the lines of Lines (the      *)
(* empty list among them), and handles no exception.                       *)
(***************************************************************************)
Pipelines == {parser(strip(line)).commands : line \in Lines}

\* the program is between two calls and makes the next one
CallDirect ==
    /\ caller = "direct"
    /\ pc = "prompt"
    /\ left > 0
    /\ left' = left - 1
    /\ UNCHANGED <<caller, tty, user_in, parsed_cmds>>

DirectUnpackFails ==
    \E cmds \in Pipelines : CallDirect /\ run_cmds_unpack_fails(cmds)

DirectForkSingle ==
    \E cmds \in Pipelines : CallDirect /\ run_cmds_single(cmds)

DirectForkPipe ==
    \E cmds \in Pipelines : CallDirect /\ run_cmds_pipe(cmds)

DirectFork1Fails ==
    \E cmds \in Pipelines : CallDirect /\ run_cmds_fork_fails(cmds)

DirectInit ==
    /\ caller = "direct"
    /\ tty = {}
    /\ left = MaxLines
    /\ Fresh

DirectNext ==
    \/ DirectUnpackFails
    \/ DirectForkSingle
    \/ DirectForkPipe
    \/ DirectFork1Fails
    \/ Wait1Fork2
    \/ Fork2Fails
    \/ Wait2
    \/ WaitSingle
    \/ StepChildExec
    \/ StepProgWrite
    \/ StepProgRead
    \/ StepProgExit

DirectSpec == DirectInit /\ [][DirectNext]_vars

(***************************************************************************)
(* Properties.                                                             *)
(***************************************************************************)
HasEnded(p) == procs[p].st \in {"zombie", "reaped"}
IsBackground(cmds) == cmds[Len(cmds)].background
Says(log, by, text) == \E i \in 1..Len(log) : log[i].by = by /\ log[i].msg = text

\* C1: a two-stage foreground pipeline of a writer and a reader always
\* completes: whatever the number of bytes the writer writes, the call returns
\* with the reader having received exactly the bytes written, in order, and
\* end-of-file (or the second process could not be created).
PipelineRunning(c) ==
    /\ Len(calls) = c
    /\ pc \in {"wait1", "wait2"}
    /\ ~IsBackground(cur.cmds)
    /\ Program(cur.cmds[1].cmd) = "writer"
    /\ Program(cur.cmds[2].cmd) = "reader"

PipelineDelivered(c) ==
    /\ Len(calls) >= c
    /\ \/ calls[c].ret = "fork_failed"
       \/ /\ calls[c].ret = "returned"
          /\ Len(calls[c].pids) = 2
          /\ HasEnded(calls[c].pids[2])
          /\ procs[calls[c].pids[2]].got = procs[calls[c].pids[1]].sent

C1_PipelineDelivers ==
    \A c \in 1..MaxLines : PipelineRunning(c) ~> PipelineDelivered(c)

\* C2: when a single-stage foreground call has returned, it has created
\* exactly one process and that process has terminated.
C2_ForegroundWaitsForItsChild ==
    \A c \in 1..Len(calls) :
        (/\ Len(calls[c].cmds) = 1
         /\ ~IsBackground(calls[c].cmds)
         /\ calls[c].ret = "returned")
        => /\ Len(calls[c].pids) = 1
           /\ HasEnded(calls[c].pids[1])

\* C3: one pipe is created per two-stage call; once such a call has returned
\* the shell holds neither end of its pipe; and whenever the shell is back at
\* its prompt its descriptor table is the one it started with.
C3_PipeEndsClosed ==
    /\ Len(pipes) = Cardinality({c \in 1..Len(calls) : Len(calls[c].cmds) = 2})
    /\ \A c \in 1..Len(calls) :
          (Len(calls[c].cmds) = 2 /\ calls[c].ret = "returned")
          => /\ calls[c].pipe \in 1..Len(pipes)
             /\ ~Holds(shfds, PipeR(calls[c].pipe))
             /\ ~Holds(shfds, PipeW(calls[c].pipe))
    /\ pc = "prompt" => shfds = [fd \in 0..2 |-> Tty]

C3_Witness ==
    /\ pc = "prompt"
    /\ Len(calls) = 2
    /\ \A c \in 1..2 : Len(calls[c].cmds) = 2 /\ calls[c].ret = "returned"
    /\ IsBackground(calls[1].cmds) /\ ~IsBackground(calls[2].cmds)

\* C4: a background call that has created its processes has returned with a
\* background notice on the error stream, and no wait of any call ever
\* returns its final process.
C4_BackgroundNeverWaited ==
    \A c \in 1..Len(calls) :
        (IsBackground(calls[c].cmds) /\ Len(calls[c].pids) = Len(calls[c].cmds))
        => /\ calls[c].ret = "returned"
           /\ \/ Says(err, 0, "Background process (single)")
              \/ Says(err, 0, "Background process (pipe)")
           /\ \A d \in 1..Len(calls) : \A j \in 1..Len(calls[d].waited) :
                 calls[d].waited[j] # calls[c].pids[Len(calls[c].pids)]

\* C5: the shell is never blocked in a wait during a background call.
C5_BackgroundNeverBlocks ==
    pc \in {"wait1", "wait2", "wait_single"} => ~IsBackground(cur.cmds)

\* C6: a child whose command does not resolve (and whose redirections open)
\* has, once ended, written "<cmd>: command not found" to the error stream
\* and ended with a non-zero status.
C6_NotFoundChildFails ==
    \A p \in Pids :
        (/\ HasEnded(p)
         /\ ~find_executable(procs[p].stage)
         /\ ~redirect([fd \in 0..2 |-> Tty], procs[p].stage).raised)
        => /\ Says(err, p, "command not found")
           /\ procs[p].status # 0

\* C7: for a line with the background marker at the end of a segment that is
\* not the last one, the parser fails and returns no stage, and once the
\* driver has handled the line no process exists and run_cmds was not called.
HasMisplacedMarker(line) ==
    LET segs == split_on(line, "|")
    IN  \E i \in 1..(Len(segs) - 1) : endswith(strip(segs[i]), "&")

C7_MisplacedMarkerRejected ==
    \A line \in tty :
        HasMisplacedMarker(line)
        => /\ parser(strip(line)).failed
           /\ parser(strip(line)).commands = <<>>
           /\ left = 0 => /\ procs = <<>>
                          /\ calls = <<>>
                          /\ IsParsed(strip(line)) =>
                                /\ parsed_cmds = [failed |-> TRUE, commands |-> <<>>]
                                /\ Says(err, 0, "syntax error")
                                /\ Says(out, 0, "no commands")

C7_Witness ==
    /\ left = 0
    /\ tty = {<<"w", "&", "|", "w">>}
    /\ parsed_cmds.failed

\* C8: a segment built from plain tokens, one input clause and one output
\* clause, in any order, parses to one stage whose args are the plain tokens
\* in order and whose input and output are the two paths.
C8_RedirectionOrderIndependent ==
    \A c \in RedirCases :
        (left = 0 /\ tty = {c.line})
        => parsed_cmds =
             [failed |-> FALSE,
              commands |-> << [cmd |-> c.toks[1], args |-> c.toks,
                               input |-> c.inp, output |-> c.outp,
                               background |-> FALSE] >>]

C8_Witness ==
    /\ left = 0
    /\ user_in = <<"w", " ", ">", "o", " ", "<", "i">>
    /\ \E c \in RedirCases : tty = {c.line}
    /\ parsed_cmds.commands # <<>>

\* C9: no process is ever created for cd, pwd or exit.
C9_BuiltinsCreateNoProcess ==
    \A p \in Pids :
        procs[p].stage.cmd \notin {<<"c", "d">>, <<"p", "w", "d">>, Exit}

\* C10: a failed process creation ends the shell: it is the last thing the
\* shell does, the shell process has ended with a non-zero status, and a
\* diagnostic of the shell process is on the error stream.
C10_ForkFailureFatal ==
    \A c \in 1..Len(calls) :
        calls[c].ret = "fork_failed"
        => /\ c = Len(calls)
           /\ pc = "exited"
           /\ shstatus # 0
           /\ Says(err, 0, "Traceback")

C10_Witness ==
    /\ Len(calls) = 2
    /\ calls[2].ret = "fork_failed"
    /\ Len(calls[2].cmds) = 2
    /\ Len(calls[2].pids) = 1

\* C11: a call with more than two stages creates a process for stage 1 and
\* for stage 2 only and returns to the driver, whose loop goes on: such a call
\* is running, has returned or has failed to create a process, and once
\* returned it has created two processes, for its first two stages.
C11_ExtraStagesIgnored ==
    \A c \in 1..Len(calls) :
        Len(calls[c].cmds) > 2
        => /\ calls[c].ret \in {"active", "returned", "fork_failed"}
           /\ calls[c].ret = "returned" =>
                /\ Len(calls[c].pids) = 2
                /\ \A k \in 1..2 : procs[calls[c].pids[k]].stage = calls[c].cmds[k]

\* C12: a run_cmds call on the empty list creates no pipe and no process and
\* returns normally.
C12_EmptyPipelineIsNoOp ==
    \A c \in 1..Len(calls) :
        calls[c].cmds = <<>>
        => /\ calls[c].ret = "returned"
           /\ calls[c].pids = <<>>
           /\ calls[c].pipe = 0

\* the shell has written a diagnostic that names this pid and status
Names(log, text, pid, status) ==
    \E i \in 1..Len(log) : log[i] = Msg(0, text, pid, status)

\* C13: in a two-stage call, once the wait on process 1 has returned, process
\* 2 has been created (or its creation was tried and failed in the operating
\* system) whatever the status of process 1, a non-zero status of process 1
\* being reported on the error stream; and process 2 exists only when process
\* 1 was created before it and has terminated and been waited for.
C13_Stage2AfterStage1 ==
    \A c \in 1..Len(calls) :
        Len(calls[c].cmds) = 2
        => /\ calls[c].waited # <<>> =>
                /\ calls[c].waited[1] = calls[c].pids[1]
                /\ Len(calls[c].pids) = 2 \/ calls[c].ret = "fork_failed"
                /\ procs[calls[c].pids[1]].status # 0 =>
                      Names(err, "Parent: Child 1 terminated", calls[c].pids[1],
                            procs[calls[c].pids[1]].status)
           /\ Len(calls[c].pids) = 2 =>
                /\ calls[c].pids[1] < calls[c].pids[2]
                /\ procs[calls[c].pids[1]].st = "reaped"
                /\ calls[c].waited # <<>>
                /\ procs[calls[c].pids[2]].stage = calls[c].cmds[2]

C13_Witness ==
    \E c \in 1..Len(calls) :
        /\ Len(calls[c].cmds) = 2
        /\ Len(calls[c].pids) = 2
        /\ procs[calls[c].pids[1]].status = WaitStatus(1)
        /\ procs[calls[c].pids[2]].st = "running"

\* the diagnostic m names a process that the call which created it waited
\* for, with the status that process ended with
NamesOwnProcess(m) ==
    /\ m.pid \in Pids
    /\ m.status = procs[m.pid].status
    /\ \E j \in 1..Len(calls[procs[m.pid].call].waited) :
          calls[procs[m.pid].call].waited[j] = m.pid

\* C14: every non-zero-exit diagnostic names the pid and the status of a
\* process of the call that writes it: "Child 1" is on the error stream only
\* and names stage 1 of a two-stage call, "Child 2" is on the output stream
\* only and names stage 2 of a two-stage call, "Child" is on the output stream
\* only and names the process of a single-stage call.
C14_DiagnosticNamesOwnProcess ==
    /\ \A i \in 1..Len(err) :
          /\ err[i].msg \notin {"Parent: Child 2 terminated", "Parent: Child terminated"}
          /\ err[i].msg = "Parent: Child 1 terminated" =>
                /\ NamesOwnProcess(err[i])
                /\ procs[err[i].pid].idx = 1
                /\ Len(calls[procs[err[i].pid].call].cmds) = 2
    /\ \A i \in 1..Len(out) :
          /\ out[i].msg # "Parent: Child 1 terminated"
          /\ out[i].msg = "Parent: Child 2 terminated" =>
                /\ NamesOwnProcess(out[i])
                /\ procs[out[i].pid].idx = 2
          /\ out[i].msg = "Parent: Child terminated" =>
                /\ NamesOwnProcess(out[i])
                /\ Len(calls[procs[out[i].pid].call].cmds) = 1

\* the descriptor numbers of a table that refer to an end of some pipe
PipeDescriptors(fds) == {fd \in DOMAIN fds : fds[fd].kind \in {"pr", "pw"}}

\* the child has replaced its image (execfds is its table at that moment)
HasExeced(p) == procs[p].st # "forked" /\ procs[p].execfds # NoFds

\* C15: process 2 never holds a write end; at image replacement stage 1 holds
\* no pipe descriptor but its descriptor 1 (the write end of its pipe), stage
\* 2 none but its descriptor 0 (the read end of its pipe), the process of a
\* single-stage call none; once process 1 has ended nobody holds the write
\* end, so that a running stage 2 at an empty pipe is at end-of-file.
C15_Stage1SoleWriter ==
    \A p \in Pids :
        LET me == procs[p]
            two == Len(calls[me.call].cmds) = 2
        IN  /\ (two /\ me.idx = 2) =>
                 /\ \A fd \in DOMAIN me.fds : me.fds[fd].kind # "pw"
                 /\ HasEnded(calls[me.call].pids[1])
                 /\ ~HasHolder(PipeW(me.pipe))
                 /\ (me.st = "running" /\ pipes[me.pipe] = <<>>) =>
                        ~HasHolder(PipeW(me.fds[0].id))
            /\ (two /\ me.idx = 1 /\ HasEnded(p)) => ~HasHolder(PipeW(me.pipe))
            /\ HasExeced(p) =>
                 /\ (two /\ me.idx = 1) =>
                        /\ PipeDescriptors(me.execfds) = {1}
                        /\ me.execfds[1] = PipeW(me.pipe)
                 /\ (two /\ me.idx = 2) =>
                        /\ PipeDescriptors(me.execfds) = {0}
                        /\ me.execfds[0] = PipeR(me.pipe)
                 /\ ~two => PipeDescriptors(me.execfds) = {}

C15_Witness ==
    \E p \in Pids :
        /\ procs[p].idx = 2
        /\ procs[p].prog = "reader"
        /\ HasEnded(p)
        /\ procs[p].got # <<>>
        /\ procs[p].got = procs[calls[procs[p].call].pids[1]].sent
        /\ IsBackground(calls[procs[p].call].cmds)

\* the child is stage k of a two-stage call
IsPipeStage(p, k) == Len(calls[procs[p].call].cmds) = 2 /\ procs[p].idx = k

\* C16: at image replacement, stage 1 of a two-stage call has descriptor 1 on
\* the write end of the pipe and stage 2 has descriptor 0 on the read end,
\* whatever paths they name; every other stage that names an input path has
\* descriptor 0 on that file opened read-only, and every other stage that
\* names an output path has descriptor 1 on that file opened create/write-only.
C16_DescriptorWiring ==
    \A p \in Pids :
        HasExeced(p) =>
            LET me == procs[p]
            IN  /\ IsPipeStage(p, 1) => me.execfds[1] = PipeW(me.pipe)
                /\ IsPipeStage(p, 2) => me.execfds[0] = PipeR(me.pipe)
                /\ (me.stage.input # None /\ ~IsPipeStage(p, 2)) =>
                       me.execfds[0] = FileR(me.stage.input)
                /\ (me.stage.output # None /\ ~IsPipeStage(p, 1)) =>
                       me.execfds[1] = FileW(me.stage.output)

C16_Witness ==
    \E p, q, r \in Pids :
        /\ HasExeced(p) /\ HasExeced(q) /\ HasExeced(r)
        /\ ~IsPipeStage(p, 1) /\ ~IsPipeStage(p, 2)
        /\ procs[p].stage.input # None /\ procs[p].stage.output # None
        /\ IsPipeStage(q, 1) /\ procs[q].stage.output # None
        /\ IsPipeStage(r, 2) /\ procs[r].stage.input # None

\* os.execve fails for the stage although find_executable returned a path
ExecFails(stage) == Program(stage.cmd) \in {"enoent", "enoexec"}

\* C17: a child whose executable resolves (and whose redirections open) but
\* whose image replacement fails has, once ended, written "Failed to execute"
\* to the error stream and ended with a non-zero status.
C17_ExecFailureReported ==
    \A p \in Pids :
        (/\ HasEnded(p)
         /\ find_executable(procs[p].stage)
         /\ ExecFails(procs[p].stage)
         /\ ~redirect([fd \in 0..2 |-> Tty], procs[p].stage).raised)
        => /\ Says(err, p, "Failed to execute")
           /\ procs[p].status # 0

\* one of the stage's redirection targets does not open
OpenFails(stage) ==
    \/ stage.input # None /\ ~OpensForReading(stage.input)
    \/ stage.output # None /\ ~OpensForWriting(stage.output)

\* the child p exists and a redirection target of its stage does not open
FailingChild(p) == p \in Pids /\ OpenFails(procs[p].stage)

\* the child has ended without replacing its image and the call that created
\* it is over: it has returned to the driver (or a later os.fork failed)
FailureContained(p) ==
    /\ p \in Pids
    /\ HasEnded(p)
    /\ ~HasExeced(p)
    /\ calls[procs[p].call].ret \in {"returned", "fork_failed"}

\* C18: a child with a redirection target that does not open never replaces
\* its image; when it is stage 1 of a two-stage call that has returned, the
\* call has waited for it, created stage 2 and closed both pipe ends in the
\* shell; and in the end every such child has ended and the call that created
\* it has returned to the driver.
C18_OpenFailureContained ==
    /\ [](\A p \in Pids :
            OpenFails(procs[p].stage)
            => /\ ~HasExeced(p)
               /\ procs[p].st # "running"
               /\ (IsPipeStage(p, 1) /\ calls[procs[p].call].ret = "returned") =>
                     /\ calls[procs[p].call].waited[1] = p
                     /\ Len(calls[procs[p].call].pids) = 2
                     /\ ~Holds(shfds, PipeR(procs[p].pipe))
                     /\ ~Holds(shfds, PipeW(procs[p].pipe)))
    /\ <>[](\A p \in Pids : FailingChild(p) => FailureContained(p))

C18_Witness ==
    \E p \in Pids :
        /\ FailingChild(p)
        /\ FailureContained(p)
        /\ IsPipeStage(p, 1)
        /\ Len(calls[procs[p].call].pids) = 2
        /\ HasExeced(calls[procs[p].call].pids[2])
        /\ calls[procs[p].call].ret = "returned"
        /\ pc = "prompt"

\* the tokens left of a segment once it is trimmed and its background marker
\* and its redirection clauses are taken out
SegmentTokens(seg) ==
    LET c == strip(seg)
    IN  split_ws(re_sub(IF endswith(c, "&") THEN SubSeq(c, 1, Len(c) - 1) ELSE c))

HasTokens(seg) == SegmentTokens(seg) # <<>>

\* C19: when the parser has returned a pipeline for a line, every stage has a
\* non-empty args whose first element is cmd; the stages are, in order, those
\* of the segments that have tokens, the segments without tokens being left
\* out without a syntax failure; there are at most as many stages as segments.
C19_StagesHaveArgs ==
    (left = 0 /\ IsParsed(user_in)) =>
        LET segs == split_on(user_in, "|")
            kept == SelectSeq(segs, HasTokens)
            cmds == parsed_cmds.commands
        IN  /\ parsed_cmds.failed = HasMisplacedMarker(user_in)
            /\ ~parsed_cmds.failed =>
                 /\ Len(cmds) <= Len(segs)
                 /\ Len(cmds) = Len(kept)
                 /\ \A k \in 1..Len(cmds) :
                       /\ cmds[k].args # <<>>
                       /\ cmds[k].args[1] = cmds[k].cmd
                       /\ cmds[k].args = SegmentTokens(kept[k])

C19_Witness ==
    /\ left = 0
    /\ user_in = <<"w", "|", "|", "w">>
    /\ Len(parsed_cmds.commands) = 2
    /\ Len(procs) > 0

\* what a child writes to the terminal before it has replaced its image: the
\* two diagnostics of execute, the interpreter's traceback, the text of the
\* handler it leaves the loop by
ChildTexts == {"command not found", "Failed to execute", "Traceback", "Exiting shell."}

\* the processes that are at the prompt of run_shell or will come back to it
InReadLoop ==
    (IF caller = "run_shell" /\ pc # "exited" THEN {0} ELSE {})
        \cup {p \in Pids : procs[p].st = "prompt"}

\* C20: a child is between fork and image replacement, runs its target
\* program, or has ended; it is never at the prompt, and all it ever writes to
\* the terminal as a copy of the shell are the texts of its way out; at most
\* one process, the shell, is in the driver's read loop.
C20_ChildNeverActsAsShell ==
    /\ \A p \in Pids :
          /\ procs[p].st \in {"forked", "running", "zombie", "reaped"}
          /\ procs[p].st = "forked" => procs[p].prog = "shell"
          /\ procs[p].st = "running" =>
                /\ procs[p].prog = Program(procs[p].stage.cmd)
                /\ procs[p].prog \in {"writer", "reader", "exit1"}
    /\ \A i \in 1..Len(err) : err[i].by # 0 => err[i].msg \in ChildTexts
    /\ \A i \in 1..Len(out) : out[i].by # 0 => out[i].msg \in ChildTexts
    /\ InReadLoop \subseteq {0}

C20_Witness ==
    \E p, q, r \in Pids :
        /\ ~find_executable(procs[p].stage) /\ HasEnded(p)
        /\ OpenFails(procs[q].stage) /\ HasEnded(q)
        /\ HasExeced(r)
        /\ Says(out, p, "Exiting shell.")
        /\ pc = "prompt"

====
